---- MODULE Spec2Model ----
(***************************************************************************)
(* Order workflow of the fashion e-commerce backend: OrdersService         *)
(* (createOrder, cancelOrder, updateStatus, findById), CartService and     *)
(* ProductsService, over a document store with multi-document             *)
(* transactions (MongoDB sessions: a transaction reads from the snapshot   *)
(* taken by its first operation plus its own writes, and a write to a      *)
(* document that another transaction has written, or that was committed    *)
(* after the snapshot, fails with a write conflict).                       *)
(***************************************************************************)
EXTENDS Integers, Sequences, FiniteSets, TLC

\* ------------------------------------------------------------------ bounds
MaxStock == 2      \* initial stock of a variant, and the largest quantity asked
MaxOrders == 2     \* checkouts are started only while fewer orders exist
MaxCartOps == 2    \* cart mutations served in one run
MaxAdminOps == 1   \* administrator requests (catalog, order status) served in one run

Users == {"u1", "u2"}
Procs == {"r1", "r2"}          \* concurrently served requests
ProductIds == {"P1", "P2"}
Skus == {"A", "B", "C"}
Addresses == {"addr"}

NoDoc == [null |-> TRUE]         \* findOne / findById returned null
Statuses == {"PENDING", "PAID", "SHIPPED", "DELIVERED", "CANCELLED"}

\* ------------------------------------------------------------------ state
VARIABLES
    products,   \* products collection: ProductIds -> product document or NoDoc
    carts,      \* carts collection: Users -> cart document [items], or NoDoc
    orders,     \* orders collection: sequence of order documents (index = _id)
    stock0,     \* the stock every SKU was created with (never written)
    pc,         \* per request: the await the handler is suspended at
    call,       \* per request: the operation and its arguments
    snap,       \* per request: the collections as of the transaction's snapshot
    work,       \* per request: the snapshot plus the transaction's own writes
    wset,       \* per request: documents written by the open transaction
    stale,      \* per request: documents others committed since the snapshot
    loc,        \* per request: local variables of the handler
    served      \* how many cart and administrator requests were served so far

vars == <<products, carts, orders, stock0, pc, call, snap, work, wset, stale, loc,
          served>>
dbvars == <<products, carts, orders>>

\* ------------------------------------------------------------ pure helpers
\* Array.findIndex: 1-based index of the first element satisfying P, 0 for -1.
\* hits[i] tells whether the predicate holds of the i-th element.
FirstIndex(hits) ==
    IF \E i \in 1..Len(hits) : hits[i]
    THEN CHOOSE i \in 1..Len(hits) : hits[i] /\ \A j \in 1..(i - 1) : ~hits[j]
    ELSE 0

\* product.variants.findIndex(v => v.sku === cartItem.variantSku)
FindVariantIndex(variants, sku) ==
    FirstIndex([i \in 1..Len(variants) |-> variants[i].sku = sku])

\* variant.images[0] || null
FirstImage(images) == IF Len(images) > 0 THEN images[1] ELSE "null"

\* variant.attributes.forEach((value, key) => attributesObject[key] = value):
\* the Map's entries, in insertion order, written into a plain object.
RECURSIVE AttributesObject(_)
AttributesObject(entries) ==
    IF entries = <<>> THEN <<>>
    ELSE LET rest == AttributesObject(SubSeq(entries, 1, Len(entries) - 1))
             e == entries[Len(entries)]
             keys == DOMAIN rest \cup {e[1]}
         IN [k \in keys |-> IF k = e[1] THEN e[2] ELSE rest[k]]

\* A variant of OrderItemOf that takes the price of the product's first
\* variant instead of the matched one.
OrderItemOfFirstVariant(pid, product, variant, quantity) ==
    [productId |-> pid,
     variantSku |-> variant.sku,
     quantity |-> quantity,
     snapshot |-> [title |-> product.title,
                   price |-> product.variants[1].price,
                   image |-> FirstImage(variant.images),
                   attributes |-> AttributesObject(variant.attributes)]]

\* The order item pushed for one cart line (lines 265-275).
OrderItemOf(pid, product, variant, quantity) ==
    [productId |-> pid,
     variantSku |-> variant.sku,
     quantity |-> quantity,
     snapshot |-> [title |-> product.title,
                   price |-> variant.price,
                   image |-> FirstImage(variant.images),
                   attributes |-> AttributesObject(variant.attributes)]]

\* A variant of StockInsufficient that refuses a request for the whole stock.
StockInsufficientOrEqual(stock, quantity) == stock <= quantity

\* A variant of StockInsufficient that lets one unit too many through.
StockInsufficientOffByOne(stock, quantity) == stock + 1 < quantity

\* if (variant.stock < cartItem.quantity) throw ...
StockInsufficient(stock, quantity) == stock < quantity

\* The updateOne filter { _id, 'variants.sku': sku, 'variants.stock': {$gte: q} }:
\* each array condition is satisfied by SOME element, not necessarily the same.
DecrementFilterMatches(doc, sku, q) ==
    /\ doc # NoDoc
    /\ \E i \in 1..Len(doc.variants) : doc.variants[i].sku = sku
    /\ \E i \in 1..Len(doc.variants) : doc.variants[i].stock >= q

\* The array index the positional operator 'variants.$' stands for. With two
\* conditions on the array and no $elemMatch the store records the index of
\* the first element matching one of the conditions; which one depends on the
\* order the server evaluates them in, so both are possible outcomes.
DecrementPositions(doc, sku, q) ==
    {FirstIndex([i \in 1..Len(doc.variants) |-> doc.variants[i].sku = sku]),
     FirstIndex([i \in 1..Len(doc.variants) |-> doc.variants[i].stock >= q])}

\* $inc: { 'variants.$.stock': delta } applied at index i.
IncStockAt(doc, i, delta) ==
    [doc EXCEPT !.variants[i].stock = @ + delta]

\* A variant of RestoreAmount that gives back one unit per item.
RestoreAmountOne(item) == 1

\* $inc: { 'variants.$.stock': item.quantity } of cancelOrder.
RestoreAmount(item) == item.quantity

\* The cancelOrder filter { _id, 'variants.sku': sku }: one array condition.
RestoreFilterMatches(doc, sku) ==
    /\ doc # NoDoc
    /\ \E i \in 1..Len(doc.variants) : doc.variants[i].sku = sku

RestorePosition(doc, sku) == FindVariantIndex(doc.variants, sku)

\* ------------------------------------------------------------ initial state
VariantA(s) == [sku |-> "A", attributes |-> << <<"Size", "M">>, <<"Color", "Red">> >>,
                stock |-> s, price |-> 100, images |-> <<"a1.png", "a2.png">>]
VariantB(s) == [sku |-> "B", attributes |-> << <<"Size", "L">> >>,
                stock |-> s, price |-> 150, images |-> <<>>]
VariantC(s) == [sku |-> "C", attributes |-> << <<"Color", "Maroon">> >>,
                stock |-> s, price |-> 200, images |-> <<"c1.png">>]

InitialProducts(sa, sb, sc) ==
    [pid \in ProductIds |->
        IF pid = "P1"
        THEN [title |-> "Shirt", options |-> {"Size", "Color"},
              variants |-> <<VariantA(sa), VariantB(sb)>>]
        ELSE [title |-> "Saree", options |-> {"Color"},
              variants |-> <<VariantC(sc)>>]]

NoCall == [op |-> "none", userId |-> "none", orderId |-> 0, status |-> "none",
           address |-> "none"]
NoView == [products |-> <<>>, carts |-> <<>>, orders |-> <<>>]
NoWrites == [p |-> {}, c |-> {}, o |-> {}]
NoError == [name |-> "none", a |-> 0, b |-> 0, status |-> "none"]
\* idx: position in the item loop; inserted: orderModel.create was issued;
\* txn: the driver's transaction state; orderId: _id of the created order;
\* thrown: the error caught by the handler's catch block; error: the error
\* the call ends with.
NoLoc == [idx |-> 0, orderItems |-> <<>>, totalAmount |-> 0, orderNumber |-> 0,
          inserted |-> FALSE, txn |-> "none", orderId |-> 0, thrown |-> NoError,
          error |-> NoError]

Init ==
    /\ products = InitialProducts(MaxStock, MaxStock, MaxStock)
    /\ stock0 = [s \in Skus |-> MaxStock]
    /\ carts = [u \in Users |-> NoDoc]
    /\ orders = <<>>
    /\ pc = [p \in Procs |-> "idle"]
    /\ call = [p \in Procs |-> NoCall]
    /\ snap = [p \in Procs |-> NoView]
    /\ work = [p \in Procs |-> NoView]
    /\ wset = [p \in Procs |-> NoWrites]
    /\ stale = [p \in Procs |-> NoWrites]
    /\ loc = [p \in Procs |-> NoLoc]
    /\ served = [cart |-> 0, admin |-> 0]

\* --------------------------------------------------------------- the store
CurrentView == [products |-> products, carts |-> carts, orders |-> orders]

Err(name) == [NoError EXCEPT !.name = name]

\* A variant of WriteConflict for a store that only sees the writes of the
\* transactions still open, not those committed since the snapshot.
WriteConflictWithOpenOnly(p, coll, key) ==
    \E q \in Procs \ {p} : key \in wset[q][coll]

\* A write inside p's transaction to document key of collection coll fails
\* when another open transaction has written it or when it was committed by
\* someone else after p's snapshot was taken.
WriteConflict(p, coll, key) ==
    \/ key \in stale[p][coll]
    \/ \E q \in Procs \ {p} : key \in wset[q][coll]

\* A write outside any transaction waits while an open transaction holds the
\* document.
Unlocked(coll, key) == \A q \in Procs : key \notin wset[q][coll]

\* A variant of MarkStale for a store that does not notice the writes made
\* to carts under an open transaction.
MarkStaleButCarts(p, w) ==
    stale' = [q \in Procs |->
                IF q # p /\ pc[q] # "idle"
                THEN [p |-> stale[q].p \cup w.p, c |-> stale[q].c,
                      o |-> stale[q].o \cup w.o]
                ELSE stale[q]]

\* Requests with a call in progress learn that w was committed under them.
MarkStale(p, w) ==
    stale' = [q \in Procs |->
                IF q # p /\ pc[q] # "idle"
                THEN [p |-> stale[q].p \cup w.p, c |-> stale[q].c \cup w.c,
                      o |-> stale[q].o \cup w.o]
                ELSE stale[q]]

\* The first operation of a transaction fixes its snapshot. Only the
\* documents the handler can reach are kept: the products ps, the cart of
\* user u and the order o (the others are never read through the session).
ViewOf(ps, u, o) ==
    [products |-> [pid \in ProductIds |-> IF pid \in ps THEN products[pid] ELSE NoDoc],
     carts |-> [v \in Users |-> IF v = u THEN carts[v] ELSE NoDoc],
     orders |-> [i \in 1..Len(orders) |-> IF i = o THEN orders[i] ELSE NoDoc]]

\* A finished call hands its response over before anything else is served:
\* the response is what the call computed, whatever happens next.
NoResponsePending == \A q \in Procs : pc[q] # "done"

\* The handler of request p is suspended at the await named label.
At(p, label) == pc[p] = label /\ NoResponsePending

\* A new request is served by the first free slot (the slots are alike).
FreeSlot(p) ==
    /\ At(p, "idle")
    /\ p = "r1" \/ pc["r1"] # "idle"

\* The handler throws err inside try: catch (error) { await
\* session.abortTransaction(); throw error } finally { session.endSession() }.
\* The driver refuses abortTransaction once commitTransaction has been called
\* on the session, and that refusal is then what the catch block throws;
\* otherwise the transaction's writes are discarded and err is rethrown. The
\* abort is taken in the step that throws: nothing another request does in
\* between depends on which of the two it sees.
Rethrown(p, err) ==
    IF loc[p].txn = "committed" THEN Err("TransactionError") ELSE err

\* A variant of Throw that tries again after losing a write to a concurrent
\* request instead of giving up.
ThrowRetrying(p, err) ==
    IF err.name \in {"WriteConflict", "StockConflict"}
    THEN /\ loc' = [loc EXCEPT ![p].error = err]
         /\ UNCHANGED <<work, wset, pc>>
    ELSE /\ loc' = [loc EXCEPT ![p].thrown = err,
                               ![p].error = Rethrown(p, err),
                               ![p].txn = IF @ = "committed" THEN @ ELSE "aborted"]
         /\ work' = [work EXCEPT ![p] = NoView]
         /\ wset' = [wset EXCEPT ![p] = NoWrites]
         /\ pc' = [pc EXCEPT ![p] = "done"]

Throw(p, err) ==
    /\ loc' = [loc EXCEPT ![p].thrown = err,
                          ![p].error = Rethrown(p, err),
                          ![p].txn = IF @ = "committed" THEN @ ELSE "aborted"]
    /\ work' = [work EXCEPT ![p] = NoView]
    /\ wset' = [wset EXCEPT ![p] = NoWrites]
    /\ pc' = [pc EXCEPT ![p] = "done"]

\* session.commitTransaction() succeeding: the write set becomes visible at
\* once; newOrders are the documents the transaction inserted.
CommitTransaction(p, newOrders) ==
    /\ products' = [pid \in ProductIds |->
                      IF pid \in wset[p].p THEN work[p].products[pid] ELSE products[pid]]
    /\ carts' = [u \in Users |->
                   IF u \in wset[p].c THEN work[p].carts[u] ELSE carts[u]]
    /\ orders' = [i \in 1..Len(orders) |->
                    IF i \in wset[p].o THEN work[p].orders[i] ELSE orders[i]] \o newOrders
    /\ MarkStale(p, [wset[p] EXCEPT
                        !.o = @ \cup (Len(orders) + 1)..(Len(orders) + Len(newOrders))])
    /\ wset' = [wset EXCEPT ![p] = NoWrites]
    /\ work' = [work EXCEPT ![p] = NoView]

\* ------------------------------------------------ OrdersService.createOrder
\* The cart document and the line item the loop is at (the handler's locals).
CartOf(p) == snap[p].carts[call[p].userId]
\* (CartItemOfReversed: a variant that walks the cart from its last line.)
CartItemOfReversed(p) == CartOf(p).items[Len(CartOf(p).items) + 1 - loc[p].idx]
CartItemOf(p) == CartOf(p).items[loc[p].idx]

\* The order document handed to orderModel.create.
OrderData(p) ==
    [userId |-> call[p].userId,
     orderNumber |-> loc[p].orderNumber,
     items |-> loc[p].orderItems,
     totalAmount |-> loc[p].totalAmount,
     status |-> "PENDING",
     shippingAddress |-> call[p].address]

\* A variant of CartIsEmpty that only looks for a missing cart.
CartIsMissing(cart) == cart = NoDoc

\* if (!cart || cart.items.length === 0) throw ...
CartIsEmpty(cart) == cart = NoDoc \/ Len(cart.items) = 0

\* startSession, startTransaction, cartModel.findOne({userId}).session(session)
\* and the empty-cart check; the item loop is entered when there are items.
CreateOrderStart(p, u, addr, fault) ==
    /\ FreeSlot(p)
    /\ Len(orders) + Cardinality({q \in Procs : call[q].op = "createOrder"}) < MaxOrders
    /\ call' = [call EXCEPT ![p] = [NoCall EXCEPT !.op = "createOrder", !.userId = u,
                                                  !.address = addr]]
    /\ snap' = [snap EXCEPT ![p] =
          ViewOf(IF carts[u] = NoDoc THEN {}
                 ELSE {carts[u].items[i].productId : i \in 1..Len(carts[u].items)}, u, 0)]
    /\ LET cart == carts[u]
           started == [NoLoc EXCEPT !.txn = "active", !.idx = 1]
           failed(err) == /\ loc' = [loc EXCEPT ![p] = [started EXCEPT !.thrown = err,
                                                                      !.error = err,
                                                                      !.txn = "aborted"]]
                          /\ pc' = [pc EXCEPT ![p] = "done"]
                          /\ UNCHANGED work
       IN IF fault THEN failed(Err("StorageError"))
          ELSE IF CartIsEmpty(cart) THEN failed(Err("EmptyCart"))
          ELSE /\ loc' = [loc EXCEPT ![p] = started]
               /\ pc' = [pc EXCEPT ![p] = IF Len(cart.items) > 0 THEN "co_item"
                                                                ELSE "co_insert"]
               /\ work' = [work EXCEPT ![p] = snap'[p]]
    /\ UNCHANGED <<dbvars, stock0, wset, stale, served>>

\* One turn of the item loop: productModel.findById(cartItem.productId)
\* .session(session), the variant lookup and the stock validation, then
\* productModel.updateOne(filter, {$inc: {'variants.$.stock': -quantity}},
\* {session}), the modifiedCount check, the snapshot and the running total.
\* The read is served from the transaction's snapshot, so nothing another
\* request does between the read and the write changes what was read.
\* fault: 0 none, 1 the read fails, 2 the write fails.
CreateOrderItem(p, fault) ==
    /\ At(p, "co_item")
    /\ LET item == CartItemOf(p)
           pid == item.productId
           product == work[p].products[pid]
           vi == IF product = NoDoc THEN 0
                 ELSE FindVariantIndex(product.variants, item.variantSku)
           variant == product.variants[vi]
       IN IF fault = 1 THEN Throw(p, Err("StorageError"))
          ELSE IF product = NoDoc THEN Throw(p, Err("ProductNotFound"))
          ELSE IF vi = 0 THEN Throw(p, Err("VariantNotFound"))
          ELSE IF StockInsufficient(variant.stock, item.quantity)
          THEN Throw(p, [Err("InsufficientStock") EXCEPT
                            !.a = variant.stock, !.b = item.quantity])
          ELSE IF fault = 2 THEN Throw(p, Err("StorageError"))
          ELSE IF WriteConflict(p, "p", pid) THEN Throw(p, Err("WriteConflict"))
          ELSE IF ~DecrementFilterMatches(product, item.variantSku, item.quantity)
          THEN Throw(p, Err("StockConflict"))
          ELSE \E i \in DecrementPositions(product, item.variantSku, item.quantity) :
                 /\ work' = [work EXCEPT ![p].products[pid] =
                                  IncStockAt(product, i, 0 - item.quantity)]
                 /\ wset' = [wset EXCEPT ![p].p = @ \cup {pid}]
                 /\ loc' = [loc EXCEPT
                       ![p].orderItems = Append(@, OrderItemOf(pid, product, variant,
                                                               item.quantity)),
                       ![p].totalAmount = @ + variant.price * item.quantity,
                       ![p].idx = @ + 1]
                 /\ pc' = [pc EXCEPT ![p] = IF loc[p].idx < Len(CartOf(p).items)
                                            THEN "co_item" ELSE "co_insert"]
    /\ UNCHANGED <<dbvars, stock0, call, snap, stale, served>>

\* The order numbers of the orders collection, and those inserted by the
\* transactions that are still open.
PersistedNumbers == {orders[i].orderNumber : i \in 1..Len(orders)}
PendingNumbers ==
    {loc[q].orderNumber : q \in {r \in Procs : pc[r] \in {"co_clear", "co_commit"}}}

\* `ORD-${Date.now()}-${Math.random()...}`: a string that no order has, or
\* one that an order already has. Order numbers are numbered as they first
\* appear; the unused ones are alike, so the least stands for them.
GeneratedNumbers ==
    LET used == PersistedNumbers \cup PendingNumbers
        fresh == CHOOSE n \in 1..(MaxOrders + Cardinality(Procs) + 1) :
                    n \notin used /\ \A m \in 1..(n - 1) : m \in used
    IN used \cup {fresh}

\* A variant of DuplicateKey for an orderNumber path without its index.
DuplicateKeyNever(os, n) == FALSE

\* @Prop({ required: true, unique: true }) orderNumber: the unique index
\* rejects an insert whose order number a document of the collection has.
DuplicateKey(os, n) == \E i \in 1..Len(os) : os[i].orderNumber = n

\* const orderNumber = ...; orderModel.create([orderData], {session}). An
\* insert of a key that an open transaction has inserted is a write conflict.
CreateOrderInsert(p, fault, n) ==
    /\ At(p, "co_insert")
    /\ IF fault THEN Throw(p, Err("StorageError"))
       ELSE IF DuplicateKey(orders, n) THEN Throw(p, Err("DuplicateKey"))
       ELSE IF n \in PendingNumbers THEN Throw(p, Err("WriteConflict"))
       ELSE /\ loc' = [loc EXCEPT ![p].inserted = TRUE, ![p].orderNumber = n]
            /\ pc' = [pc EXCEPT ![p] = "co_clear"]
            /\ UNCHANGED <<work, wset>>
    /\ UNCHANGED <<dbvars, stock0, call, snap, stale, served>>

\* cartModel.updateOne({userId}, {$set: {items: []}}, {session})
CreateOrderClearCart(p, fault) ==
    /\ At(p, "co_clear")
    /\ LET u == call[p].userId
       IN IF fault THEN Throw(p, Err("StorageError"))
          ELSE IF WriteConflict(p, "c", u) THEN Throw(p, Err("WriteConflict"))
          ELSE /\ work' = [work EXCEPT ![p].carts[u].items = <<>>]
               /\ wset' = [wset EXCEPT ![p].c = @ \cup {u}]
               /\ pc' = [pc EXCEPT ![p] = "co_commit"]
               /\ UNCHANGED loc
    /\ UNCHANGED <<dbvars, stock0, call, snap, stale, served>>

\* session.commitTransaction(): a failed commit applies nothing, but the
\* driver has already recorded that commit was called.
CreateOrderCommit(p, fault) ==
    /\ At(p, "co_commit")
    /\ IF fault
       THEN /\ loc' = [loc EXCEPT ![p].txn = "committed",
                                  ![p].thrown = Err("StorageError"),
                                  ![p].error = Err("TransactionError")]
            /\ work' = [work EXCEPT ![p] = NoView]
            /\ wset' = [wset EXCEPT ![p] = NoWrites]
            /\ pc' = [pc EXCEPT ![p] = "done"]
            /\ UNCHANGED <<dbvars, stale>>
       ELSE /\ CommitTransaction(p, <<OrderData(p)>>)
            /\ loc' = [loc EXCEPT ![p].txn = "committed",
                                  ![p].orderId = Len(orders) + 1]
            /\ pc' = [pc EXCEPT ![p] = "co_reread"]
    /\ UNCHANGED <<stock0, call, snap, served>>

\* return await this.findById(order._id.toString(), userId)
CreateOrderReread(p, fault) ==
    /\ At(p, "co_reread")
    /\ LET id == loc[p].orderId
       IN IF fault THEN Throw(p, Err("StorageError"))
          ELSE IF id \notin 1..Len(orders) \/ orders[id].userId # call[p].userId
          THEN Throw(p, Err("OrderNotFound"))
          ELSE /\ pc' = [pc EXCEPT ![p] = "done"]
               /\ UNCHANGED <<loc, work, wset>>
    /\ UNCHANGED <<dbvars, stock0, call, snap, stale, served>>

\* The response leaves the server; the request slot is free again.
Return(p) ==
    /\ pc[p] = "done"
    /\ pc' = [pc EXCEPT ![p] = "idle"]
    /\ call' = [call EXCEPT ![p] = NoCall]
    /\ snap' = [snap EXCEPT ![p] = NoView]
    /\ work' = [work EXCEPT ![p] = NoView]
    /\ stale' = [stale EXCEPT ![p] = NoWrites]
    /\ loc' = [loc EXCEPT ![p] = NoLoc]
    /\ UNCHANGED <<dbvars, stock0, wset, served>>

\* ------------------------------------------------ OrdersService.cancelOrder
\* A variant of SetStatus that also resets the total of the order.
SetStatusAndTotal(order, status) == [order EXCEPT !.status = status, !.totalAmount = 0]

\* order.status = <status>; await order.save(): the one modified path is
\* written (cancelOrder and updateStatus).
SetStatus(order, status) == [order EXCEPT !.status = status]

\* The order document and the item the restore loop is at.
OrderOf(p) == snap[p].orders[call[p].orderId]
OrderItemAt(p) == OrderOf(p).items[loc[p].idx]

\* A variant of FindOrder that looks the order up by its id alone.
FindOrderAnyOwner(os, orderId, userId) ==
    IF orderId \in 1..Len(os) THEN os[orderId] ELSE NoDoc

\* orderModel.findOne({ _id: orderId, userId })
FindOrder(os, orderId, userId) ==
    IF orderId \in 1..Len(os) /\ os[orderId].userId = userId THEN os[orderId] ELSE NoDoc

\* OrdersService.findById(orderId, userId): the error thrown, NoError when
\* the order is returned.
FindByIdError(os, orderId, userId) ==
    IF FindOrder(os, orderId, userId) = NoDoc THEN Err("OrderNotFound") ELSE NoError

\* OrdersService.findAll(userId): find({ userId }).sort({ createdAt: -1 }),
\* the ids of the user's orders, newest first.
RECURSIVE FindAll(_, _)
FindAll(os, userId) ==
    IF os = <<>> THEN <<>>
    ELSE (IF os[Len(os)].userId = userId THEN <<Len(os)>> ELSE <<>>)
         \o FindAll(SubSeq(os, 1, Len(os) - 1), userId)

\* A variant of Cancellable that refuses only orders already cancelled.
CancellableUnlessCancelled(status) == status # "CANCELLED"

\* if (order.status !== OrderStatus.PENDING) throw ...
Cancellable(status) == status = "PENDING"

\* startSession, startTransaction, orderModel.findOne({_id, userId})
\* .session(session) and the two guards.
CancelOrderStart(p, o, u, fault) ==
    /\ FreeSlot(p)
    /\ call' = [call EXCEPT ![p] = [NoCall EXCEPT !.op = "cancelOrder", !.userId = u,
                                                  !.orderId = o]]
    /\ LET order == FindOrder(orders, o, u)
           view == ViewOf(IF order = NoDoc THEN {}
                          ELSE {order.items[i].productId : i \in 1..Len(order.items)},
                          "none", IF order = NoDoc THEN 0 ELSE o)
           started == [NoLoc EXCEPT !.txn = "active", !.idx = 1]
           failed(err) == /\ loc' = [loc EXCEPT ![p] = [started EXCEPT !.thrown = err,
                                                                      !.error = err,
                                                                      !.txn = "aborted"]]
                          /\ pc' = [pc EXCEPT ![p] = "done"]
                          /\ UNCHANGED work
       IN /\ snap' = [snap EXCEPT ![p] = view]
          /\ IF fault THEN failed(Err("StorageError"))
             ELSE IF order = NoDoc THEN failed(Err("OrderNotFound"))
             ELSE IF ~Cancellable(order.status)
             THEN failed([Err("InvalidStateTransition") EXCEPT !.status = order.status])
             ELSE /\ loc' = [loc EXCEPT ![p] = started]
                  /\ pc' = [pc EXCEPT ![p] = IF Len(order.items) > 0 THEN "ca_item"
                                                                     ELSE "ca_save"]
                  /\ work' = [work EXCEPT ![p] = view]
    /\ UNCHANGED <<dbvars, stock0, wset, stale, served>>

\* A variant of CancelOrderRestore that treats an item whose product or
\* variant is gone as a failure of the cancellation.
CancelOrderRestoreStrict(p, fault) ==
    /\ At(p, "ca_item")
    /\ LET item == OrderItemAt(p)
           pid == item.productId
           product == work[p].products[pid]
           next == IF loc[p].idx < Len(OrderOf(p).items) THEN "ca_item" ELSE "ca_save"
       IN IF fault THEN Throw(p, Err("StorageError"))
          ELSE IF ~RestoreFilterMatches(product, item.variantSku)
          THEN Throw(p, Err("VariantNotFound"))
          ELSE IF WriteConflict(p, "p", pid) THEN Throw(p, Err("WriteConflict"))
          ELSE /\ work' = [work EXCEPT ![p].products[pid] =
                              IncStockAt(product, RestorePosition(product, item.variantSku),
                                         RestoreAmount(item))]
               /\ wset' = [wset EXCEPT ![p].p = @ \cup {pid}]
               /\ loc' = [loc EXCEPT ![p].idx = @ + 1]
               /\ pc' = [pc EXCEPT ![p] = next]
    /\ UNCHANGED <<dbvars, stock0, call, snap, stale, served>>

\* productModel.updateOne({_id: item.productId, 'variants.sku': item.variantSku},
\* {$inc: {'variants.$.stock': item.quantity}}, {session}); a filter that
\* matches no document writes nothing and is not an error.
CancelOrderRestore(p, fault) ==
    /\ At(p, "ca_item")
    /\ LET item == OrderItemAt(p)
           pid == item.productId
           product == work[p].products[pid]
           next == IF loc[p].idx < Len(OrderOf(p).items) THEN "ca_item" ELSE "ca_save"
       IN IF fault THEN Throw(p, Err("StorageError"))
          ELSE IF ~RestoreFilterMatches(product, item.variantSku)
          THEN /\ loc' = [loc EXCEPT ![p].idx = @ + 1]
               /\ pc' = [pc EXCEPT ![p] = next]
               /\ UNCHANGED <<work, wset>>
          ELSE IF WriteConflict(p, "p", pid) THEN Throw(p, Err("WriteConflict"))
          ELSE /\ work' = [work EXCEPT ![p].products[pid] =
                              IncStockAt(product, RestorePosition(product, item.variantSku),
                                         RestoreAmount(item))]
               /\ wset' = [wset EXCEPT ![p].p = @ \cup {pid}]
               /\ loc' = [loc EXCEPT ![p].idx = @ + 1]
               /\ pc' = [pc EXCEPT ![p] = next]
    /\ UNCHANGED <<dbvars, stock0, call, snap, stale, served>>

\* order.status = OrderStatus.CANCELLED; await order.save({ session })
CancelOrderSave(p, fault) ==
    /\ At(p, "ca_save")
    /\ LET o == call[p].orderId
       IN IF fault THEN Throw(p, Err("StorageError"))
          ELSE IF WriteConflict(p, "o", o) THEN Throw(p, Err("WriteConflict"))
          ELSE /\ work' = [work EXCEPT ![p].orders[o] = SetStatus(@, "CANCELLED")]
               /\ wset' = [wset EXCEPT ![p].o = @ \cup {o}]
               /\ pc' = [pc EXCEPT ![p] = "ca_commit"]
               /\ UNCHANGED loc
    /\ UNCHANGED <<dbvars, stock0, call, snap, stale, served>>

\* A variant of CancelOrderCommit whose failing commit leaves the stock
\* increments in place.
CancelOrderCommitKeepingStock(p, fault) ==
    /\ At(p, "ca_commit")
    /\ IF fault
       THEN /\ loc' = [loc EXCEPT ![p].txn = "committed",
                                  ![p].thrown = Err("StorageError"),
                                  ![p].error = Err("TransactionError")]
            /\ products' = [pid \in ProductIds |->
                              IF pid \in wset[p].p THEN work[p].products[pid]
                              ELSE products[pid]]
            /\ work' = [work EXCEPT ![p] = NoView]
            /\ wset' = [wset EXCEPT ![p] = NoWrites]
            /\ UNCHANGED <<carts, orders, stale>>
       ELSE /\ CommitTransaction(p, <<>>)
            /\ loc' = [loc EXCEPT ![p].txn = "committed"]
    /\ pc' = [pc EXCEPT ![p] = "done"]
    /\ UNCHANGED <<stock0, call, snap, served>>

\* session.commitTransaction(); return order
CancelOrderCommit(p, fault) ==
    /\ At(p, "ca_commit")
    /\ IF fault
       THEN /\ loc' = [loc EXCEPT ![p].txn = "committed",
                                  ![p].thrown = Err("StorageError"),
                                  ![p].error = Err("TransactionError")]
            /\ work' = [work EXCEPT ![p] = NoView]
            /\ wset' = [wset EXCEPT ![p] = NoWrites]
            /\ UNCHANGED <<dbvars, stale>>
       ELSE /\ CommitTransaction(p, <<>>)
            /\ loc' = [loc EXCEPT ![p].txn = "committed"]
    /\ pc' = [pc EXCEPT ![p] = "done"]
    /\ UNCHANGED <<stock0, call, snap, served>>

\* ----------------------------------------------- OrdersService.updateStatus
\* const order = await this.orderModel.findById(orderId) and the not-found
\* check. The read is outside any transaction: it returns the committed
\* document, which the handler keeps (here as the request's view).
UpdateStatusFind(p, o, status) ==
    /\ FreeSlot(p)
    /\ served.admin < MaxAdminOps
    /\ call' = [call EXCEPT ![p] = [NoCall EXCEPT !.op = "updateStatus", !.orderId = o,
                                                  !.status = status]]
    /\ IF o \in 1..Len(orders)
       THEN /\ snap' = [snap EXCEPT ![p] = ViewOf({}, "none", o)]
            /\ pc' = [pc EXCEPT ![p] = "us_save"]
            /\ UNCHANGED loc
       ELSE /\ loc' = [loc EXCEPT ![p].thrown = Err("OrderNotFound"),
                                  ![p].error = Err("OrderNotFound")]
            /\ pc' = [pc EXCEPT ![p] = "done"]
            /\ UNCHANGED snap
    /\ served' = [served EXCEPT !.admin = @ + 1]
    /\ UNCHANGED <<dbvars, stock0, work, wset, stale>>

\* A variant of UpdateStatusSave that leaves a CANCELLED order as it is.
UpdateStatusSaveKeepingCancelled(p) ==
    /\ At(p, "us_save")
    /\ LET o == call[p].orderId
       IN IF snap[p].orders[o].status = call[p].status \/ orders[o].status = "CANCELLED"
          THEN UNCHANGED <<orders, stale>>
          ELSE /\ Unlocked("o", o)
               /\ orders' = [orders EXCEPT ![o] = SetStatus(@, call[p].status)]
               /\ MarkStale(p, [NoWrites EXCEPT !.o = {o}])
    /\ pc' = [pc EXCEPT ![p] = "done"]
    /\ UNCHANGED <<products, carts, stock0, call, snap, work, wset, loc, served>>

\* order.status = dto.status; await order.save(): save sends the one path
\* that differs from the document as it was read ($set: {status}), and sends
\* nothing when the status read is the status asked for. The write waits
\* while an open transaction holds the order.
UpdateStatusSave(p) ==
    /\ At(p, "us_save")
    /\ LET o == call[p].orderId
       IN IF snap[p].orders[o].status = call[p].status
          THEN UNCHANGED <<orders, stale>>
          ELSE /\ Unlocked("o", o)
               /\ orders' = [orders EXCEPT ![o] = SetStatus(@, call[p].status)]
               /\ MarkStale(p, [NoWrites EXCEPT !.o = {o}])
    /\ pc' = [pc EXCEPT ![p] = "done"]
    /\ UNCHANGED <<products, carts, stock0, call, snap, work, wset, loc, served>>

\* ---------------------------------------------------------- ProductsService
\* validateVariantAttributes(options, variants): every attribute key of every
\* variant is an option name.
ValidVariantAttributes(optionNames, variants) ==
    \A i \in 1..Len(variants) :
        \A j \in 1..Len(variants[i].attributes) :
            variants[i].attributes[j][1] \in optionNames

\* The unique index on 'variants.sku': no SKU of the array is held by
\* another product (or twice by this one).
SkusFree(pid, variants) ==
    /\ \A i, j \in 1..Len(variants) : variants[i].sku = variants[j].sku => i = j
    /\ \A other \in ProductIds \ {pid} :
          products[other] # NoDoc =>
             \A i \in 1..Len(variants), j \in 1..Len(products[other].variants) :
                variants[i].sku # products[other].variants[j].sku

\* The update requests an administrator sends: has names the optional
\* fields the DTO carries (the others are placeholders, never read).
UpdateDtos ==
    << [has |-> {"title"}, title |-> "Shirt II", options |-> {}, variants |-> <<>>],
       [has |-> {"options"}, title |-> "", options |-> {"Size"}, variants |-> <<>>],
       [has |-> {"variants"}, title |-> "", options |-> {},
        variants |-> <<[VariantA(1) EXCEPT !.price = 120, !.images = <<>>]>>],
       [has |-> {"options", "variants"}, title |-> "",
        options |-> {"Size", "Color", "Fit"},
        variants |-> <<VariantB(MaxStock),
                       [VariantA(0) EXCEPT !.attributes = << <<"Fit", "Slim">> >>]>>] >>

\* findByIdAndUpdate(id, updateDto): the fields the DTO carries are set.
ApplyUpdate(doc, dto) ==
    [title |-> IF "title" \in dto.has THEN dto.title ELSE doc.title,
     options |-> IF "options" \in dto.has THEN dto.options ELSE doc.options,
     variants |-> IF "variants" \in dto.has THEN dto.variants ELSE doc.variants]

\* ProductsService.update: a missing product, a failed validation or a
\* duplicate SKU throws and changes nothing.
UpdateProduct(pid, dto) ==
    /\ NoResponsePending
    /\ served.admin < MaxAdminOps
    /\ products[pid] # NoDoc
    /\ "variants" \in dto.has =>
          /\ ValidVariantAttributes(IF "options" \in dto.has THEN dto.options
                                    ELSE products[pid].options, dto.variants)
          /\ SkusFree(pid, dto.variants)
    /\ Unlocked("p", pid)
    /\ products' = [products EXCEPT ![pid] = ApplyUpdate(@, dto)]
    /\ MarkStale("none", [NoWrites EXCEPT !.p = {pid}])
    /\ served' = [served EXCEPT !.admin = @ + 1]
    /\ UNCHANGED <<carts, orders, stock0, pc, call, snap, work, wset, loc>>

\* ProductsService.delete: findByIdAndDelete(id)
DeleteProduct(pid) ==
    /\ NoResponsePending
    /\ served.admin < MaxAdminOps
    /\ products[pid] # NoDoc
    /\ Unlocked("p", pid)
    /\ products' = [products EXCEPT ![pid] = NoDoc]
    /\ MarkStale("none", [NoWrites EXCEPT !.p = {pid}])
    /\ served' = [served EXCEPT !.admin = @ + 1]
    /\ UNCHANGED <<carts, orders, stock0, pc, call, snap, work, wset, loc>>

\* -------------------------------------------------------------- CartService
\* cart.items.findIndex(item => item.productId === dto.productId &&
\*                              item.variantSku === dto.variantSku)
FindCartItemIndex(items, pid, sku) ==
    FirstIndex([i \in 1..Len(items) |->
                   items[i].productId = pid /\ items[i].variantSku = sku])

\* A variant of AddToCartError that checks the added quantity only, not the
\* quantity the line ends up with.
AddToCartErrorNoMerge(u, pid, sku, q) ==
    IF products[pid] = NoDoc THEN "ProductNotFound"
    ELSE LET vi == FindVariantIndex(products[pid].variants, sku)
         IN IF vi = 0 THEN "VariantNotFound"
            ELSE IF StockInsufficient(products[pid].variants[vi].stock, q)
            THEN "InsufficientStock"
            ELSE "none"

\* What addToCart(userId, {productId, variantSku, quantity}) throws, "none"
\* when it passes its checks: product, variant, stock against the added
\* quantity and, for a SKU already in the cart, against the merged quantity.
AddToCartError(u, pid, sku, q) ==
    IF products[pid] = NoDoc THEN "ProductNotFound"
    ELSE LET vi == FindVariantIndex(products[pid].variants, sku)
             items == IF carts[u] = NoDoc THEN <<>> ELSE carts[u].items
             ei == FindCartItemIndex(items, pid, sku)
         IN IF vi = 0 THEN "VariantNotFound"
            ELSE IF StockInsufficient(products[pid].variants[vi].stock, q)
            THEN "InsufficientStock"
            ELSE IF ei # 0 /\ StockInsufficient(products[pid].variants[vi].stock,
                                                items[ei].quantity + q)
            THEN "InsufficientStock"
            ELSE "none"

AddToCartAccepted(u, pid, sku, q) == AddToCartError(u, pid, sku, q) = "none"

\* A variant of AddToCart that takes the added units out of the stock.
AddToCartReserving(u, pid, sku, q) ==
    /\ NoResponsePending
    /\ served.cart < MaxCartOps
    /\ u = "u1" \/ carts["u1"] # NoDoc
    /\ AddToCartAccepted(u, pid, sku, q)
    /\ Unlocked("c", u)
    /\ Unlocked("p", pid)
    /\ LET items == IF carts[u] = NoDoc THEN <<>> ELSE carts[u].items
           ei == FindCartItemIndex(items, pid, sku)
       IN carts' = [carts EXCEPT ![u] =
             [items |-> IF ei # 0 THEN [items EXCEPT ![ei].quantity = @ + q]
                        ELSE Append(items, [productId |-> pid, variantSku |-> sku,
                                            quantity |-> q])]]
    /\ products' = [products EXCEPT ![pid] =
          IncStockAt(@, FindVariantIndex(@.variants, sku), 0 - q)]
    /\ MarkStale("none", [NoWrites EXCEPT !.c = {u}, !.p = {pid}])
    /\ served' = [served EXCEPT !.cart = @ + 1]
    /\ UNCHANGED <<orders, stock0, pc, call, snap, work, wset, loc>>

\* CartService.addToCart: the cart is created when missing, the quantity of
\* an existing line is raised, a new line is pushed; cart.save().
AddToCart(u, pid, sku, q) ==
    /\ NoResponsePending
    /\ served.cart < MaxCartOps
    /\ u = "u1" \/ carts["u1"] # NoDoc      \* the first customer is called u1
    /\ AddToCartAccepted(u, pid, sku, q)
    /\ Unlocked("c", u)
    /\ LET items == IF carts[u] = NoDoc THEN <<>> ELSE carts[u].items
           ei == FindCartItemIndex(items, pid, sku)
       IN carts' = [carts EXCEPT ![u] =
             [items |-> IF ei # 0 THEN [items EXCEPT ![ei].quantity = @ + q]
                        ELSE Append(items, [productId |-> pid, variantSku |-> sku,
                                            quantity |-> q])]]
    /\ MarkStale("none", [NoWrites EXCEPT !.c = {u}])
    /\ served' = [served EXCEPT !.cart = @ + 1]
    /\ UNCHANGED <<products, orders, stock0, pc, call, snap, work, wset, loc>>

\* What updateCartItem(userId, itemId, {quantity}) throws, "none" when it
\* passes its checks; the item is the i-th line of the cart.
UpdateCartItemError(u, i, q) ==
    IF carts[u] = NoDoc THEN "CartNotFound"
    ELSE IF i \notin 1..Len(carts[u].items) THEN "ItemNotFound"
    ELSE LET item == carts[u].items[i]
             product == products[item.productId]
             vi == IF product = NoDoc THEN 0
                   ELSE FindVariantIndex(product.variants, item.variantSku)
         IN IF product = NoDoc THEN "ProductNotFound"
            ELSE IF vi = 0 THEN "VariantNotFound"
            ELSE IF StockInsufficient(product.variants[vi].stock, q)
            THEN "InsufficientStock"
            ELSE "none"

\* CartService.updateCartItem: a call that throws changes nothing.
UpdateCartItem(u, i, q) ==
    /\ NoResponsePending
    /\ served.cart < MaxCartOps
    /\ UpdateCartItemError(u, i, q) = "none"
    /\ carts[u].items[i].quantity # q
    /\ Unlocked("c", u)
    /\ carts' = [carts EXCEPT ![u].items[i].quantity = q]
    /\ MarkStale("none", [NoWrites EXCEPT !.c = {u}])
    /\ served' = [served EXCEPT !.cart = @ + 1]
    /\ UNCHANGED <<products, orders, stock0, pc, call, snap, work, wset, loc>>

\* cart.items.splice(itemIndex, 1)
Splice(items, i) == SubSeq(items, 1, i - 1) \o SubSeq(items, i + 1, Len(items))

\* CartService.removeCartItem(userId, itemId)
RemoveCartItem(u, i) ==
    /\ NoResponsePending
    /\ served.cart < MaxCartOps
    /\ carts[u] # NoDoc
    /\ i \in 1..Len(carts[u].items)
    /\ Unlocked("c", u)
    /\ carts' = [carts EXCEPT ![u].items = Splice(@, i)]
    /\ MarkStale("none", [NoWrites EXCEPT !.c = {u}])
    /\ served' = [served EXCEPT !.cart = @ + 1]
    /\ UNCHANGED <<products, orders, stock0, pc, call, snap, work, wset, loc>>

\* CartService.clearCart(userId): updateOne({userId}, {$set: {items: []}})
ClearCart(u) ==
    /\ NoResponsePending
    /\ served.cart < MaxCartOps
    /\ carts[u] # NoDoc
    /\ carts[u].items # <<>>
    /\ Unlocked("c", u)
    /\ carts' = [carts EXCEPT ![u].items = <<>>]
    /\ MarkStale("none", [NoWrites EXCEPT !.c = {u}])
    /\ served' = [served EXCEPT !.cart = @ + 1]
    /\ UNCHANGED <<products, orders, stock0, pc, call, snap, work, wset, loc>>

\* ------------------------------------------------------------ specification
\* The steps of createOrder; slots are the request slots that take new calls,
\* faults says whether storage round-trips may fail.
CreateOrderSteps(slots, faults) ==
    \/ \E p \in slots, u \in Users, addr \in Addresses, f \in faults :
          CreateOrderStart(p, u, addr, f)
    \/ \E p \in Procs, f \in {0} \cup {k \in {1, 2} : TRUE \in faults} :
          CreateOrderItem(p, f)
    \/ \E p \in Procs, f \in faults, n \in GeneratedNumbers : CreateOrderInsert(p, f, n)
    \/ \E p \in Procs, f \in faults : CreateOrderClearCart(p, f)
    \/ \E p \in Procs, f \in faults : CreateOrderCommit(p, f)
    \/ \E p \in Procs, f \in faults : CreateOrderReread(p, f)
    \/ \E p \in Procs : Return(p)

CancelOrderSteps(slots, faults) ==
    \/ \E p \in slots, o \in 1..MaxOrders, u \in Users, f \in faults :
          CancelOrderStart(p, o, u, f)
    \/ \E p \in Procs, f \in faults : CancelOrderRestore(p, f)
    \/ \E p \in Procs, f \in faults : CancelOrderSave(p, f)
    \/ \E p \in Procs, f \in faults : CancelOrderCommit(p, f)

AddToCartStep ==
    \E u \in Users, pid \in ProductIds, sku \in Skus, q \in 1..MaxStock :
        AddToCart(u, pid, sku, q)

CartSteps ==
    \/ AddToCartStep
    \/ \E u \in Users, i \in 1..Cardinality(Skus), q \in 1..MaxStock :
          UpdateCartItem(u, i, q)
    \/ \E u \in Users, i \in 1..Cardinality(Skus) : RemoveCartItem(u, i)
    \/ \E u \in Users : ClearCart(u)

\* The administrator asks for any status on an order that exists, or names
\* an id no order has (the status asked for is then never looked at).
UpdateStatusSteps(slots) ==
    \/ \E p \in slots, o \in 1..Len(orders), st \in Statuses : UpdateStatusFind(p, o, st)
    \/ \E p \in slots : UpdateStatusFind(p, Len(orders) + 1, "PAID")
    \/ \E p \in Procs : UpdateStatusSave(p)

CatalogSteps ==
    \/ \E pid \in ProductIds, k \in 1..Len(UpdateDtos) : UpdateProduct(pid, UpdateDtos[k])
    \/ \E pid \in ProductIds : DeleteProduct(pid)

\* Every operation of the three services, one transaction at a time, with
\* the cart and administrator requests arriving between any two of its
\* round-trips.
Next ==
    \/ CreateOrderSteps({"r1"}, {FALSE})
    \/ CancelOrderSteps({"r1"}, {FALSE})
    \/ CartSteps
    \/ UpdateStatusSteps(Procs)
    \/ CatalogSteps

Spec == Init /\ [][Next]_vars

\* The order and cart operations over a catalog nobody edits, two requests
\* served concurrently: two checkouts, or a checkout or status request in
\* the first slot beside a checkout or cancellation in the second (two
\* concurrent cancellations are part of SpecOrders).
NextShop ==
    \/ CreateOrderSteps(Procs, {FALSE})
    \/ CancelOrderSteps({"r2"}, {FALSE})
    \/ CartSteps
    \/ UpdateStatusSteps({"r1"})

SpecShop == Init /\ [][NextShop]_vars

\* Checkouts only (carts are filled by addToCart), storage round-trips may fail.
NextCheckout == CreateOrderSteps(Procs, BOOLEAN) \/ AddToCartStep

SpecCheckout == Init /\ [][NextCheckout]_vars

\* Checkouts and cancellations, storage round-trips may fail.
NextOrders ==
    CreateOrderSteps(Procs, BOOLEAN) \/ CancelOrderSteps(Procs, BOOLEAN) \/ AddToCartStep

SpecOrders == Init /\ [][NextOrders]_vars

\* ------------------------------------------------- vocabulary of the claims
\* The stock of the variant with this SKU in a products collection (0 when
\* no product holds the SKU).
HasVariant(ps, sku) ==
    \E pid \in ProductIds : ps[pid] # NoDoc /\ FindVariantIndex(ps[pid].variants, sku) # 0

StockIn(ps, sku) ==
    IF HasVariant(ps, sku)
    THEN LET pid == CHOOSE x \in ProductIds :
                        ps[x] # NoDoc /\ FindVariantIndex(ps[x].variants, sku) # 0
         IN ps[pid].variants[FindVariantIndex(ps[pid].variants, sku)].stock
    ELSE 0

\* The quantity of a SKU over a list of cart or order items.
RECURSIVE QtyOf(_, _)
QtyOf(items, sku) ==
    IF items = <<>> THEN 0
    ELSE (IF items[1].variantSku = sku THEN items[1].quantity ELSE 0)
         + QtyOf(Tail(items), sku)

\* The quantity of a SKU over the orders of a ledger.
RECURSIVE OrderedQty(_, _)
OrderedQty(os, sku) ==
    IF os = <<>> THEN 0
    ELSE QtyOf(os[1].items, sku) + OrderedQty(Tail(os), sku)

Finished(p, op) == pc[p] = "done" /\ call[p].op = op
Failed(p) == loc[p].error # NoError
StorageFault(p) == loc[p].error.name \in {"StorageError", "TransactionError"}

\* The documents of p's snapshot that nobody else has written since are as
\* they were when the call began.
ProductsAsBefore(p) ==
    \A pid \in ProductIds :
        (snap[p].products[pid] # NoDoc /\ pid \notin stale[p].p)
            => products[pid] = snap[p].products[pid]

CartAsBefore(p) ==
    call[p].userId \notin stale[p].c => carts[call[p].userId] = snap[p].carts[call[p].userId]

\* C1: a createOrder call that returns an error has changed nothing: the
\* stock of every variant and the user's cart are as before the call, and the
\* ledger holds no order of that call.
C1_FailedCheckoutLeavesNoTrace ==
    \A p \in Procs :
        (Finished(p, "createOrder") /\ Failed(p)) =>
            /\ ProductsAsBefore(p)
            /\ CartAsBefore(p)
            /\ loc[p].orderId = 0

\* C2: the units taken from the stock of every variant are exactly the units
\* of that SKU in the persisted orders (checkouts only, nothing cancelled).
C2_StockMatchesLedger ==
    \A sku \in Skus :
        stock0[sku] - StockIn(products, sku) = OrderedQty(orders, sku)

\* C3: when two users each ask for the whole stock S of one variant, only one
\* checkout succeeds: the ledger never holds more units of a SKU than were in
\* stock, the variant ends at 0, and the checkout that finds the other user's
\* order in its way fails with the insufficient-stock or the stock-conflict
\* error (storage failures apart).
WholeStockOrder(o, u, sku) ==
    /\ o.userId = u
    /\ Len(o.items) = 1
    /\ o.items[1].variantSku = sku
    /\ o.items[1].quantity = stock0[sku]

C3_OneOfTwoCheckoutsWins ==
    \A sku \in Skus :
        /\ OrderedQty(orders, sku) <= stock0[sku]
        /\ \A p \in Procs :
              (/\ Finished(p, "createOrder")
               /\ ~StorageFault(p)
               /\ snap[p].carts[call[p].userId] # NoDoc
               /\ LET items == snap[p].carts[call[p].userId].items
                  IN /\ Len(items) = 1
                     /\ items[1].variantSku = sku
                     /\ items[1].quantity = stock0[sku]
               /\ \E i \in 1..Len(orders) :
                     /\ i # loc[p].orderId
                     /\ \E u \in Users \ {call[p].userId} :
                           WholeStockOrder(orders[i], u, sku))
              => /\ loc[p].error.name \in {"InsufficientStock", "StockConflict"}
                 /\ StockIn(products, sku) = 0

\* C5: a createOrder call that succeeds has created one PENDING order of the
\* user with one item per cart line (same product, SKU and quantity, in cart
\* order) and the total of price times quantity; every ordered variant's
\* stock is lower by the ordered quantity; the cart is empty.
RECURSIVE SnapshotTotal(_)
SnapshotTotal(items) ==
    IF items = <<>> THEN 0
    ELSE items[1].snapshot.price * items[1].quantity + SnapshotTotal(Tail(items))

OrderMatchesCart(order, u, cartItems) ==
    /\ order.userId = u
    /\ order.status = "PENDING"
    /\ Len(order.items) = Len(cartItems)
    /\ \A i \in 1..Len(cartItems) :
          /\ order.items[i].productId = cartItems[i].productId
          /\ order.items[i].variantSku = cartItems[i].variantSku
          /\ order.items[i].quantity = cartItems[i].quantity
    /\ order.totalAmount = SnapshotTotal(order.items)

StockLoweredByCart(p, cartItems) ==
    \A pid \in ProductIds :
        (snap[p].products[pid] # NoDoc /\ pid \notin stale[p].p) =>
            /\ products[pid] # NoDoc
            /\ Len(products[pid].variants) = Len(snap[p].products[pid].variants)
            /\ \A i \in 1..Len(products[pid].variants) :
                  products[pid].variants[i].stock =
                      snap[p].products[pid].variants[i].stock
                      - QtyOf(cartItems, products[pid].variants[i].sku)

C5_CheckoutEffect ==
    \A p \in Procs :
        (Finished(p, "createOrder") /\ ~Failed(p)) =>
            LET u == call[p].userId
                cartItems == snap[p].carts[u].items
                id == loc[p].orderId
            IN /\ id \in 1..Len(orders)
               /\ id \notin stale[p].o => OrderMatchesCart(orders[id], u, cartItems)
               /\ StockLoweredByCart(p, cartItems)
               /\ u \notin stale[p].c => carts[u].items = <<>>

\* C4: the stock of every variant is a non-negative integer in every state,
\* and so is the stock a checkout or a cancellation has written inside its
\* open transaction: a decrement by q is applied only over a stock of at
\* least q.
StocksNatural(ps) ==
    \A pid \in ProductIds :
        ps[pid] # NoDoc =>
            \A i \in 1..Len(ps[pid].variants) : ps[pid].variants[i].stock \in Nat

C4_StockNeverNegative ==
    /\ StocksNatural(products)
    /\ \A p \in Procs : work[p] # NoView => StocksNatural(work[p].products)

\* A checkout has taken the last units of a variant.
C4_Witness ==
    \E sku \in Skus :
        /\ HasVariant(products, sku)
        /\ StockIn(products, sku) = 0
        /\ \E i \in 1..Len(orders) : QtyOf(orders[i].items, sku) = stock0[sku]

\* C6: no step changes the items (with their snapshots) or the total of an
\* order that exists, and no order leaves the ledger.
C6_OrderContentFrozen ==
    [][/\ Len(orders') >= Len(orders)
       /\ \A i \in 1..Len(orders) :
             /\ orders'[i].items = orders[i].items
             /\ orders'[i].totalAmount = orders[i].totalAmount]_vars

\* An order outlives a change of its status and a change of the catalog: its
\* snapshot no longer agrees with the product, or the product is gone.
C6_Witness ==
    \E i \in 1..Len(orders) :
        /\ orders[i].status # "PENDING"
        /\ orders[i].totalAmount > 0
        /\ \E k \in 1..Len(orders[i].items) :
              LET it == orders[i].items[k]
                  doc == products[it.productId]
              IN \/ doc = NoDoc
                 \/ doc.title # it.snapshot.title
                 \/ FindVariantIndex(doc.variants, it.variantSku) = 0

\* C7: the snapshot of every item of a created order is the product's title,
\* the variant's price, its first image or null and its attributes as a flat
\* key-value map, as the checkout read them, and the total adds up those
\* same prices times the quantities.
RECURSIVE ReadTotal(_, _)
ReadTotal(view, items) ==
    IF items = <<>> THEN 0
    ELSE LET product == view.products[items[1].productId]
             variant == product.variants[FindVariantIndex(product.variants,
                                                          items[1].variantSku)]
         IN variant.price * items[1].quantity + ReadTotal(view, Tail(items))

SnapshotAsRead(view, it) ==
    LET product == view.products[it.productId]
        variant == product.variants[FindVariantIndex(product.variants, it.variantSku)]
        entries == variant.attributes
    IN /\ it.snapshot.title = product.title
       /\ it.snapshot.price = variant.price
       /\ it.snapshot.image = (IF variant.images = <<>> THEN "null" ELSE Head(variant.images))
       /\ DOMAIN it.snapshot.attributes = {entries[j][1] : j \in 1..Len(entries)}
       /\ \A j \in 1..Len(entries) : it.snapshot.attributes[entries[j][1]] = entries[j][2]

C7_SnapshotAsRead ==
    \A p \in Procs :
        (Finished(p, "createOrder") /\ ~Failed(p)) =>
            LET order == orders[loc[p].orderId]
            IN /\ \A i \in 1..Len(order.items) : SnapshotAsRead(snap[p], order.items[i])
               /\ order.totalAmount = ReadTotal(snap[p], order.items)

\* A checkout of two lines has succeeded, one of a variant without images.
C7_Witness ==
    \E p \in Procs :
        /\ Finished(p, "createOrder") /\ ~Failed(p)
        /\ LET order == orders[loc[p].orderId]
           IN /\ Len(order.items) = 2
              /\ \E i \in 1..2 : order.items[i].snapshot.image = "null"
              /\ \E i \in 1..2 : order.items[i].snapshot.image # "null"

\* C8: a cancelOrder call on the caller's PENDING order that succeeds turns
\* the order CANCELLED and, in the same step, adds each item's quantity to the
\* stock of the item's SKU; no step shows one without the other.
StockRestoredWith(i) ==
    \A sku \in Skus :
        HasVariant(products, sku) =>
            StockIn(products', sku) = StockIn(products, sku) + QtyOf(orders[i].items, sku)

BecomesCancelled(i) == orders[i].status = "PENDING" /\ orders'[i].status = "CANCELLED"

C8_CancelIsAtomic ==
    [][/\ \A i \in 1..Len(orders) : BecomesCancelled(i) => StockRestoredWith(i)
       /\ (\E sku \in Skus : StockIn(products', sku) > StockIn(products, sku))
             => \E i \in 1..Len(orders) : BecomesCancelled(i)
       /\ \A p \in Procs :
             (pc[p] = "ca_commit" /\ pc'[p] = "done" /\ loc'[p].error = NoError)
                 => BecomesCancelled(call[p].orderId)]_vars

\* A cancellation of an order of two units has succeeded.
C8_Witness ==
    \E p \in Procs :
        /\ Finished(p, "cancelOrder") /\ ~Failed(p)
        /\ orders[call[p].orderId].status = "CANCELLED"
        /\ orders[call[p].orderId].items[1].quantity = 2

\* C9: once every order that was created has been cancelled, the stock of
\* every variant is what it was before the orders were created.
C9_RoundTripRestoresStock ==
    (Len(orders) > 0 /\ \A i \in 1..Len(orders) : orders[i].status = "CANCELLED")
        => \A sku \in Skus : StockIn(products, sku) = stock0[sku]

\* C10: a cancelOrder call that finds the caller's order in a status other
\* than PENDING fails with the invalid-state-transition error naming that
\* status and changes neither the order nor any stock; cancelling twice
\* therefore restores stock once.
C10_CancelNeedsPending ==
    \A p \in Procs :
        LET o == call[p].orderId
        IN (/\ Finished(p, "cancelOrder")
            /\ o \in DOMAIN snap[p].orders
            /\ snap[p].orders[o] # NoDoc
            /\ snap[p].orders[o].status # "PENDING")
           => /\ loc[p].error.name = "InvalidStateTransition"
              /\ loc[p].error.status = snap[p].orders[o].status
              /\ loc[p].txn # "committed"
              /\ o \notin stale[p].o => orders[o] = snap[p].orders[o]
              /\ ProductsAsBefore(p)

\* A second cancellation of the same order has been refused.
C10_Witness ==
    \E p \in Procs :
        /\ Finished(p, "cancelOrder")
        /\ loc[p].error.name = "InvalidStateTransition"
        /\ loc[p].error.status = "CANCELLED"
        /\ orders[call[p].orderId].status = "CANCELLED"

\* C11: the status of an order only moves forward along PENDING, PAID,
\* SHIPPED, DELIVERED: no step takes an order to an earlier status of the
\* flow, and no step takes an order out of CANCELLED.
FlowRank(status) ==
    CASE status = "PENDING" -> 1
      [] status = "PAID" -> 2
      [] status = "SHIPPED" -> 3
      [] status = "DELIVERED" -> 4
      [] OTHER -> 5

C11_StatusMovesForward ==
    [][\A i \in 1..Len(orders) :
          /\ orders[i].status = "CANCELLED" => orders'[i].status = "CANCELLED"
          /\ orders'[i].status # "CANCELLED"
                => FlowRank(orders'[i].status) >= FlowRank(orders[i].status)]_vars

\* C12: in every step that turns an order CANCELLED, the order was PENDING
\* before the step and the step adds each item's quantity to the stock of
\* the item's variant.
C12_CancelledOnlyFromPendingWithRestore ==
    [][\A i \in 1..Len(orders) :
          (orders[i].status # "CANCELLED" /\ orders'[i].status = "CANCELLED")
              => /\ orders[i].status = "PENDING"
                 /\ StockRestoredWith(i)]_vars

\* C13: for a user who does not own an order, findById fails with the
\* order-not-found error and findAll does not list the order; a cancelOrder
\* call of that user fails at once with the order-not-found error, writes
\* nothing and leaves orders and stock as they are.
HiddenFromOthers ==
    \A o \in 1..Len(orders), u \in Users :
        orders[o].userId # u =>
            /\ FindByIdError(orders, o, u).name = "OrderNotFound"
            /\ \A k \in 1..Len(FindAll(orders, u)) : FindAll(orders, u)[k] # o

ForeignCancelRefused ==
    \A p \in Procs :
        (/\ pc[p] = "idle"
         /\ call'[p].op = "cancelOrder"
         /\ call'[p].orderId \in 1..Len(orders)
         /\ orders[call'[p].orderId].userId # call'[p].userId)
        => /\ pc'[p] = "done"
           /\ loc'[p].error.name = "OrderNotFound"
           /\ wset'[p] = NoWrites
           /\ UNCHANGED dbvars

C13_OrdersScopedToOwner == []HiddenFromOthers /\ [][ForeignCancelRefused]_vars

\* A user's cancellation of somebody else's PENDING order has been refused,
\* and both users have an order.
C13_Witness ==
    \E p \in Procs :
        /\ Finished(p, "cancelOrder")
        /\ loc[p].error.name = "OrderNotFound"
        /\ call[p].orderId \in 1..Len(orders)
        /\ orders[call[p].orderId].userId # call[p].userId
        /\ orders[call[p].orderId].status = "PENDING"
        /\ FindAll(orders, call[p].userId) # <<>>

\* C14: a createOrder call of a user who has no cart, or a cart without
\* line items, fails at once with the empty-cart error and writes nothing:
\* products, orders and carts (a missing cart stays missing) are unchanged.
C14_EmptyCartRefused ==
    [][\A p \in Procs :
          (/\ pc[p] = "idle"
           /\ call'[p].op = "createOrder"
           /\ \/ carts[call'[p].userId] = NoDoc
              \/ carts[call'[p].userId].items = <<>>)
          => /\ pc'[p] = "done"
             /\ loc'[p].error.name = "EmptyCart"
             /\ wset'[p] = NoWrites
             /\ UNCHANGED dbvars]_vars

\* A checkout over a cart that exists and holds no line has been refused.
C14_Witness ==
    \E p \in Procs :
        /\ Finished(p, "createOrder")
        /\ loc[p].error.name = "EmptyCart"
        /\ carts[call[p].userId] # NoDoc
        /\ carts[call[p].userId].items = <<>>
        /\ \E u \in Users : carts[u] = NoDoc

\* C15: the stock of a variant that exists before and after a step changes
\* only in the commit of a checkout, which lowers it, and in the commit of a
\* cancellation, which raises it.
StockOf(ps, pid, sku) == ps[pid].variants[FindVariantIndex(ps[pid].variants, sku)].stock

VariantIn(ps, pid, sku) ==
    ps[pid] # NoDoc /\ FindVariantIndex(ps[pid].variants, sku) # 0

StockChanges(pid, sku) ==
    /\ VariantIn(products, pid, sku)
    /\ VariantIn(products', pid, sku)
    /\ StockOf(products', pid, sku) # StockOf(products, pid, sku)

ByCheckoutOrCancellation(pid, sku) ==
    \E p \in Procs :
        \/ /\ pc[p] = "co_commit" /\ pc'[p] = "co_reread"
           /\ StockOf(products', pid, sku) < StockOf(products, pid, sku)
        \/ /\ pc[p] = "ca_commit" /\ pc'[p] = "done" /\ loc'[p].error = NoError
           /\ StockOf(products', pid, sku) > StockOf(products, pid, sku)

C15_StockWrittenOnlyByOrders ==
    [][\A pid \in ProductIds, sku \in Skus :
          StockChanges(pid, sku) => ByCheckoutOrCancellation(pid, sku)]_vars

\* C16: addToCart and updateCartItem are refused with the insufficient-stock
\* error exactly when the quantity the line would end up with (the quantity
\* already in the cart plus the added one, or the new quantity) exceeds the
\* variant's stock, and every line a cart request writes holds at most the
\* stock of its variant; a refused request is no step, the cart stays as it is.
QtyInCart(u, pid, sku) ==
    IF carts[u] = NoDoc \/ FindCartItemIndex(carts[u].items, pid, sku) = 0 THEN 0
    ELSE carts[u].items[FindCartItemIndex(carts[u].items, pid, sku)].quantity

CartChecksExact ==
    /\ \A u \in Users, pid \in ProductIds, sku \in Skus, q \in 1..(MaxStock + 1) :
          VariantIn(products, pid, sku) =>
              (AddToCartError(u, pid, sku, q) = "InsufficientStock"
                  <=> QtyInCart(u, pid, sku) + q > StockOf(products, pid, sku))
    /\ \A u \in Users, i \in 1..Cardinality(Skus), q \in 1..(MaxStock + 1) :
          (/\ carts[u] # NoDoc
           /\ i \in 1..Len(carts[u].items)
           /\ VariantIn(products, carts[u].items[i].productId, carts[u].items[i].variantSku))
          => (UpdateCartItemError(u, i, q) = "InsufficientStock"
                 <=> q > StockOf(products, carts[u].items[i].productId,
                                 carts[u].items[i].variantSku))

WrittenLinesWithinStock ==
    served'.cart # served.cart =>
        \A u \in Users :
            carts'[u] # NoDoc =>
                \A i \in 1..Len(carts'[u].items) :
                    LET line == carts'[u].items[i]
                    IN (carts[u] = NoDoc
                        \/ \A j \in 1..Len(carts[u].items) : carts[u].items[j] # line)
                       => /\ VariantIn(products, line.productId, line.variantSku)
                          /\ line.quantity <= StockOf(products, line.productId,
                                                       line.variantSku)

C16_CartQuantityWithinStock == []CartChecksExact /\ [][WrittenLinesWithinStock]_vars

\* A line holds the whole stock of its variant (two units): one more unit would pass the check of the added quantity and is refused by
\* the check of the merged one, and so is an update to one unit above stock.
C16_Witness ==
    \E u \in Users, i \in 1..Cardinality(Skus) :
        /\ carts[u] # NoDoc
        /\ i \in 1..Len(carts[u].items)
        /\ LET line == carts[u].items[i]
           IN /\ VariantIn(products, line.productId, line.variantSku)
              /\ line.quantity = StockOf(products, line.productId, line.variantSku)
              /\ line.quantity > 1
              /\ AddToCartError(u, line.productId, line.variantSku, 1) = "InsufficientStock"
              /\ UpdateCartItemError(u, i, line.quantity + 1) = "InsufficientStock"
              /\ UpdateCartItemError(u, i, line.quantity) = "none"

\* C17: no cart request changes the stock of a variant or an order (a
\* refused one is no step at all); a cart may therefore ask for more than is
\* in stock when the checkout runs, and a checkout succeeds only when every
\* line asks for at most the stock the checkout itself read.
CartRequestsLeaveStockAndOrders ==
    served'.cart # served.cart => UNCHANGED <<products, orders>>

CheckoutChecksStockItself ==
    \A p \in Procs :
        (Finished(p, "createOrder") /\ ~Failed(p)) =>
            \A i \in 1..Len(snap[p].carts[call[p].userId].items) :
                LET line == snap[p].carts[call[p].userId].items[i]
                IN /\ VariantIn(snap[p].products, line.productId, line.variantSku)
                   /\ line.quantity <= StockOf(snap[p].products, line.productId,
                                                line.variantSku)

C17_CartIsAdvisory ==
    []CheckoutChecksStockItself /\ [][CartRequestsLeaveStockAndOrders]_vars

\* A checkout found its cart asking for more than is left and refused it;
\* the cart still holds that line.
C17_Witness ==
    \E p \in Procs :
        /\ Finished(p, "createOrder")
        /\ loc[p].error.name = "InsufficientStock"
        /\ loc[p].error.a < loc[p].error.b
        /\ carts[call[p].userId] # NoDoc
        /\ \E i \in 1..Len(carts[call[p].userId].items) :
              LET line == carts[call[p].userId].items[i]
              IN /\ VariantIn(products, line.productId, line.variantSku)
                 /\ line.quantity > StockOf(products, line.productId, line.variantSku)

\* C18: a createOrder call that fails in its item loop stopped at the first
\* line that fails: the lines before it were processed in cart order and
\* passed, no later line was touched, and the error is the first failing
\* check of that line, in the order product exists, variant exists, quantity
\* against stock, decrement; each turn of the loop advances by one line and
\* writes the product of that line only.
ItemErrors ==
    {"ProductNotFound", "VariantNotFound", "InsufficientStock", "StockConflict",
     "WriteConflict"}

SameLine(orderItem, line) ==
    /\ orderItem.productId = line.productId
    /\ orderItem.variantSku = line.variantSku
    /\ orderItem.quantity = line.quantity

StoppedAtFirstFailure(p) ==
    LET items == snap[p].carts[call[p].userId].items
        k == loc[p].idx
        view == snap[p].products
        err == loc[p].error
    IN /\ err.name \in ItemErrors
       /\ Len(loc[p].orderItems) = k - 1
       /\ \A j \in 1..(k - 1) :
             /\ SameLine(loc[p].orderItems[j], items[j])
             /\ VariantIn(view, items[j].productId, items[j].variantSku)
       /\ err.name = "ProductNotFound" <=> view[items[k].productId] = NoDoc
       /\ err.name = "VariantNotFound" <=>
             /\ view[items[k].productId] # NoDoc
             /\ ~VariantIn(view, items[k].productId, items[k].variantSku)
       /\ err.name = "InsufficientStock" =>
             err.b = items[k].quantity /\ err.a < err.b
       /\ err.name \in {"StockConflict", "WriteConflict"} =>
             items[k].quantity <= StockOf(view, items[k].productId, items[k].variantSku)

OneLinePerTurn(p) ==
    pc[p] = "co_item" =>
        LET line == snap[p].carts[call[p].userId].items[loc[p].idx]
        IN /\ \/ loc'[p].idx = loc[p].idx /\ loc'[p].orderItems = loc[p].orderItems
              \/ /\ loc'[p].idx = loc[p].idx + 1
                 /\ Len(loc'[p].orderItems) = loc[p].idx
                 /\ SameLine(loc'[p].orderItems[loc[p].idx], line)
           /\ work'[p] # NoView =>
                 \A pid \in ProductIds \ {line.productId} :
                     work'[p].products[pid] = work[p].products[pid]

\* The call failed while the loop was at a line of the cart.
FailedInItemLoop(p) ==
    /\ Finished(p, "createOrder") /\ Failed(p)
    /\ snap[p].carts[call[p].userId] # NoDoc
    /\ loc[p].idx \in 1..Len(snap[p].carts[call[p].userId].items)

ItemLoopInCartOrder ==
    \A p \in Procs : FailedInItemLoop(p) => StoppedAtFirstFailure(p)

C18_ItemsInCartOrder ==
    []ItemLoopInCartOrder /\ [][\A p \in Procs : OneLinePerTurn(p)]_vars

\* A checkout processed its first line and failed at the second, whose
\* product or variant is gone.
C18_Witness ==
    \E p \in Procs :
        /\ Finished(p, "createOrder")
        /\ loc[p].error.name \in {"ProductNotFound", "VariantNotFound"}
        /\ loc[p].idx = 2
        /\ Len(loc[p].orderItems) = 1

\* C19: a createOrder call that stops at a line whose product and variant
\* exist fails with the insufficient-stock error exactly when the line asks
\* for strictly more than the variant's stock as the checkout read it (a
\* request for the whole stock passes), and the error carries that stock and
\* the requested quantity. The stock read is the snapshot's unless an earlier
\* line of the same cart wrote the same product.
FirstLineOfProduct(items, k) ==
    \A j \in 1..(k - 1) : items[j].productId # items[k].productId

InsufficientExactlyWhenAbove(p) ==
    LET items == snap[p].carts[call[p].userId].items
        k == loc[p].idx
        err == loc[p].error
        read == StockOf(snap[p].products, items[k].productId, items[k].variantSku)
    IN VariantIn(snap[p].products, items[k].productId, items[k].variantSku) =>
          /\ err.name = "InsufficientStock" =>
                /\ err.b = items[k].quantity
                /\ err.a < err.b
                /\ err.a <= read
          /\ FirstLineOfProduct(items, k) =>
                /\ err.name = "InsufficientStock" <=> items[k].quantity > read
                /\ err.name = "InsufficientStock" => err.a = read

C19_InsufficientStockCondition ==
    \A p \in Procs : FailedInItemLoop(p) => InsufficientExactlyWhenAbove(p)

\* A checkout asked for two units of a variant that had one left and was
\* refused with available 1, requested 2.
C19_Witness ==
    \E p \in Procs :
        /\ FailedInItemLoop(p)
        /\ loc[p].error.name = "InsufficientStock"
        /\ loc[p].error.a = 1
        /\ loc[p].error.b = 2

\* C20: a createOrder call attempts the decrement of each line once: what
\* its transaction has taken from the stock is the quantity of the lines it
\* has passed, and a turn of the loop that does not pass its line ends the
\* call, failed, with the transaction aborted and its writes dropped; the
\* loop never goes back and the call is not started again. (The filter of the
\* decrement is evaluated on the data the stock check was made on, so it
\* matches whenever the check passed; a checkout that loses the race is
\* refused by the store when it writes.)
RECURSIVE VariantsStock(_)
VariantsStock(variants) ==
    IF variants = <<>> THEN 0 ELSE variants[1].stock + VariantsStock(Tail(variants))

RECURSIVE ViewStock(_, _)
ViewStock(ps, pids) ==
    IF pids = {} THEN 0
    ELSE LET pid == CHOOSE x \in pids : TRUE
         IN (IF ps[pid] = NoDoc THEN 0 ELSE VariantsStock(ps[pid].variants))
            + ViewStock(ps, pids \ {pid})

RECURSIVE LinesQty(_)
LinesQty(items) ==
    IF items = <<>> THEN 0 ELSE items[1].quantity + LinesQty(Tail(items))

EachLineDecrementedOnce ==
    \A p \in Procs :
        (call[p].op = "createOrder" /\ work[p] # NoView) =>
            ViewStock(snap[p].products, ProductIds) - ViewStock(work[p].products, ProductIds)
                = LinesQty(SubSeq(snap[p].carts[call[p].userId].items, 1, loc[p].idx - 1))

NoSecondAttempt(p) ==
    /\ (pc[p] = "co_item" /\ loc'[p] # loc[p] /\ loc'[p].idx = loc[p].idx)
          => /\ pc'[p] = "done"
             /\ loc'[p].error # NoError
             /\ loc'[p].txn = "aborted"
             /\ work'[p] = NoView
             /\ wset'[p] = NoWrites
    /\ call[p].op = "createOrder" =>
          \/ loc'[p].idx >= loc[p].idx /\ call'[p] = call[p]
          \/ pc[p] = "done" /\ pc'[p] = "idle" /\ call'[p] = NoCall

RECURSIVE QtyOfVariant(_, _, _)
QtyOfVariant(items, pid, sku) ==
    IF items = <<>> THEN 0
    ELSE (IF items[1].productId = pid /\ items[1].variantSku = sku
          THEN items[1].quantity ELSE 0)
         + QtyOfVariant(Tail(items), pid, sku)

ItemIsGone(ps, item) == ~VariantIn(ps, item.productId, item.variantSku)

GoneItemSkipped(p) ==
    (pc[p] = "ca_item" /\ loc'[p] # loc[p])
        => (ItemIsGone(work[p].products, OrderItemAt(p))
               => /\ loc'[p].error = NoError
                  /\ loc'[p].idx = loc[p].idx + 1
                  /\ work'[p] = work[p]
                  /\ wset'[p] = wset[p])

CancelCommitRestoresExisting(p) ==
    (pc[p] = "ca_commit" /\ pc'[p] = "done" /\ loc'[p].error = NoError)
        => /\ BecomesCancelled(call[p].orderId)
           /\ \A pid \in ProductIds :
                 /\ products[pid] = NoDoc => products'[pid] = NoDoc
                 /\ \A sku \in Skus :
                       IF VariantIn(products, pid, sku)
                       THEN /\ VariantIn(products', pid, sku)
                            /\ StockOf(products', pid, sku) =
                                  StockOf(products, pid, sku)
                                  + QtyOfVariant(orders[call[p].orderId].items, pid, sku)
                       ELSE ~VariantIn(products', pid, sku)

C21_CancelSkipsMissingVariants ==
    [][\A p \in Procs : GoneItemSkipped(p) /\ CancelCommitRestoresExisting(p)]_vars

\* A cancellation has succeeded on an order of two items, one whose product
\* or variant is gone and one whose variant exists and has its stock back.
C21_Witness ==
    \E p \in Procs :
        /\ Finished(p, "cancelOrder") /\ ~Failed(p)
        /\ LET order == orders[call[p].orderId]
           IN /\ order.status = "CANCELLED"
              /\ \E i, j \in 1..Len(order.items) :
                    /\ ItemIsGone(products, order.items[i])
                    /\ ~ItemIsGone(products, order.items[j])
                    /\ StockOf(products, order.items[j].productId,
                               order.items[j].variantSku) = MaxStock

\* C22: a cancelOrder call that fails after increments were made in its
\* transaction (on a later increment, on saving the status or on commit)
\* leaves nothing of them: the failing step discards the pending writes and
\* changes no collection, and when the call has returned its error the stock
\* of every variant is what the call found and the order is still PENDING.
OrderAsBefore(p) ==
    call[p].orderId \notin stale[p].o =>
        orders[call[p].orderId] = snap[p].orders[call[p].orderId]

FailedCancelLeftNothing ==
    \A p \in Procs :
        (Finished(p, "cancelOrder") /\ Failed(p) /\ loc[p].idx > 1)
            => /\ ProductsAsBefore(p)
               /\ OrderAsBefore(p)
               /\ snap[p].orders[call[p].orderId].status = "PENDING"
               /\ wset[p] = NoWrites

FailingCancelStepDiscards(p) ==
    (/\ pc[p] \in {"ca_item", "ca_save", "ca_commit"}
     /\ wset[p].p # {}
     /\ loc'[p].error # NoError)
        => /\ UNCHANGED dbvars
           /\ work'[p] = NoView
           /\ wset'[p] = NoWrites
           /\ pc'[p] = "done"

C22_FailedCancelRollsBack ==
    []FailedCancelLeftNothing /\ [][\A p \in Procs : FailingCancelStepDiscards(p)]_vars

\* A cancellation of a two-item order failed at commit, after both increments:
\* the order is still PENDING and both variants are still lowered.
C22_Witness ==
    \E p \in Procs :
        /\ Finished(p, "cancelOrder") /\ Failed(p)
        /\ loc[p].txn = "committed"
        /\ LET order == orders[call[p].orderId]
           IN /\ order.status = "PENDING"
              /\ Len(order.items) = 2
              /\ loc[p].idx = 3
              /\ \A i \in 1..2 : StockIn(products, order.items[i].variantSku) < MaxStock

\* C23: when a step of createOrder or cancelOrder throws, the error the call
\* ends with is the error that was thrown, on every failure path: before
\* commit, at commit and after commit.
C23_CallerSeesOriginatingError ==
    \A p \in Procs :
        (pc[p] = "done" /\ loc[p].thrown # NoError) => loc[p].error = loc[p].thrown

\* C24: an updateStatus call on an order that exists never fails and leaves
\* the order with the status asked for, whatever status it had (the status
\* is written by the save, or was already there when the order was read),
\* and no step of the call changes anything else: products, carts, the other
\* orders and the other fields of the order stay as they are. On an id that
\* no order has, the call ends at once with the order-not-found error and
\* changes nothing.
UpdateStatusFrame(p) ==
    LET o == call'[p].orderId
        st == call'[p].status
        writes == pc[p] = "us_save" /\ snap[p].orders[o].status # st
    IN (call'[p].op = "updateStatus" /\ pc'[p] # pc[p])
          => /\ products' = products
             /\ carts' = carts
             /\ Len(orders') = Len(orders)
             /\ \A i \in 1..Len(orders) :
                   orders'[i] = IF i = o /\ writes THEN [orders[i] EXCEPT !.status = st]
                                ELSE orders[i]
             /\ (pc[p] = "idle" /\ o \notin 1..Len(orders))
                   => pc'[p] = "done" /\ loc'[p].error = Err("OrderNotFound")
             /\ (pc[p] = "idle" /\ o \in 1..Len(orders))
                   => pc'[p] = "us_save" /\ loc'[p].error = NoError
             /\ pc[p] = "us_save"
                   => /\ pc'[p] = "done"
                      /\ loc'[p].error = NoError
                      /\ orders'[o].status = st \/ ~writes

OrderNumbersUnique ==
    \A i, j \in 1..Len(orders) : orders[i].orderNumber = orders[j].orderNumber => i = j

CollidingCheckoutLeftNothing ==
    \A p \in Procs :
        (Finished(p, "createOrder") /\ loc[p].thrown.name = "DuplicateKey")
            => /\ loc[p].error.name = "DuplicateKey"
               /\ loc[p].txn = "aborted"
               /\ loc[p].orderId = 0
               /\ wset[p] = NoWrites
               /\ ProductsAsBefore(p)
               /\ CartAsBefore(p)

CollisionRejected(p) ==
    (pc[p] = "co_insert" /\ loc'[p].thrown.name = "DuplicateKey")
        => /\ UNCHANGED dbvars
           /\ pc'[p] = "done"
           /\ work'[p] = NoView

C25_OrderNumbersUnique ==
    /\ [](OrderNumbersUnique /\ CollidingCheckoutLeftNothing)
    /\ [][\A p \in Procs : CollisionRejected(p)]_vars

\* A checkout generated the number of the one order there is and was
\* rejected: its cart still holds its line and the stock is not lowered twice.
C25_Witness ==
    \E p \in Procs :
        /\ Finished(p, "createOrder")
        /\ loc[p].error.name = "DuplicateKey"
        /\ Len(orders) = 1
        /\ carts[call[p].userId].items # <<>>
        /\ loc[p].orderItems # <<>>

\* C26: in every state of the catalog the attribute keys of every variant of
\* a product are option names of that product, whatever updates (of the
\* options, of the variants or of both) the product has been through.
C26_AttributeKeysAreOptions ==
    \A pid \in ProductIds :
        products[pid] # NoDoc
            => ValidVariantAttributes(products[pid].options, products[pid].variants)

\* C27: with no catalog edits, the stock of every variant stays at or below
\* the stock the variant was created with, under any interleaving of
\* createOrder, cancelOrder and updateStatus calls.
C27_StockNeverInflated ==
    \A sku \in Skus : StockIn(products, sku) <= stock0[sku]

\* C28: when a cancelOrder call commits on a PENDING order while an
\* updateStatus call on the same order is between its read and its save, the
\* order ends CANCELLED, as its stock has been restored: the updateStatus
\* call never leaves the order with another status.
CancelledUnderUpdateStatus(p) ==
    /\ Finished(p, "updateStatus") /\ ~Failed(p)
    /\ snap[p].orders[call[p].orderId].status = "PENDING"
    /\ call[p].orderId \in stale[p].o

C28_CancelAndUpdateStatusConsistent ==
    \A p \in Procs :
        CancelledUnderUpdateStatus(p) => orders[call[p].orderId].status = "CANCELLED"

\* C29: with addToCart, updateCartItem, removeCartItem and clearCart calls
\* arriving at any point of a createOrder call on the same cart, the clear of
\* a checkout that succeeds finds the cart as the checkout read it, nothing
\* is written to the cart between the clear and the commit, and the commit
\* wipes exactly the lines the order is made of: the items of the new order
\* are, line by line, the lines of the cart at that moment.
ClearFindsCartAsRead(p) ==
    (pc[p] = "co_clear" /\ pc'[p] = "co_commit")
        => carts[call[p].userId] = CartOf(p)

CartHeldUntilCommit(p) ==
    (pc[p] = "co_commit" /\ pc'[p] = "co_commit")
        => carts'[call[p].userId] = carts[call[p].userId]

OrderIsCartAtClear(p) ==
    (pc[p] = "co_commit" /\ pc'[p] = "co_reread")
        => LET lines == carts[call[p].userId].items
               order == orders'[Len(orders')]
           IN /\ Len(orders') = Len(orders) + 1
              /\ Len(order.items) = Len(lines)
              /\ \A k \in 1..Len(lines) : SameLine(order.items[k], lines[k])
              /\ carts'[call[p].userId].items = <<>>

C29_OrderIsCartAtClear ==
    [][\A p \in Procs : /\ ClearFindsCartAsRead(p)
                        /\ CartHeldUntilCommit(p)
                        /\ OrderIsCartAtClear(p)]_vars

\* A checkout succeeded and a cart request of the same user was served
\* before it returned: the line it wrote is in the cart and not in the order.
C29_Witness ==
    \E p \in Procs :
        /\ Finished(p, "createOrder") /\ ~Failed(p)
        /\ call[p].userId \in stale[p].c
        /\ LET lines == carts[call[p].userId].items
               order == orders[loc[p].orderId]
           IN /\ lines # <<>>
              /\ \A k \in 1..Len(order.items) : ~SameLine(order.items[k], lines[1])

\* C30: of two createOrder calls of one user that are open on the same cart,
\* at most one creates an order: when one commits, the other, which read the
\* cart before that commit, can no longer commit; it ends failed with its
\* transaction aborted and nothing written. A checkout that commits finds
\* the cart as it read it, so the cart's lines are ordered and taken out of
\* the stock once.
ReadSameCart(p, q) ==
    /\ p # q
    /\ call[p].op = "createOrder" /\ call[q].op = "createOrder"
    /\ call[p].userId = call[q].userId
    /\ CartOf(p) # NoDoc /\ CartOf(p) = CartOf(q)

\* The cart that q's open transaction read has been written under it.
LostTheCart(q) ==
    /\ call[q].op = "createOrder"
    /\ loc[q].txn = "active"
    /\ call[q].userId \in stale[q].c

CartTakenOnce(p) ==
    (pc[p] = "co_commit" /\ pc'[p] = "co_reread")
        => /\ carts[call[p].userId] = CartOf(p)
           /\ ViewStock(products, ProductIds) - ViewStock(products', ProductIds)
                 = LinesQty(CartOf(p).items)
           /\ Len(orders') = Len(orders) + 1
           /\ \A q \in Procs :
                 (ReadSameCart(p, q) /\ loc[q].txn = "active") => LostTheCart(q)'

LoserCreatesNothing(q) ==
    LostTheCart(q)
        => \/ LostTheCart(q)'
           \/ /\ pc'[q] = "done"
              /\ loc'[q].error # NoError
              /\ loc'[q].txn = "aborted"
              /\ loc'[q].orderId = 0
              /\ wset'[q] = NoWrites
              /\ UNCHANGED dbvars

C30_OneCheckoutPerCart ==
    [][\A p \in Procs : CartTakenOnce(p) /\ LoserCreatesNothing(p)]_vars

\* Two checkouts of one user read the same cart; one has committed its order
\* and the other has ended with a write conflict.
C30_Witness ==
    \E p, q \in Procs :
        /\ ReadSameCart(p, q)
        /\ loc[p].orderId # 0
        /\ Finished(q, "createOrder")
        /\ loc[q].error.name = "WriteConflict"
        /\ Len(orders) = 1

====
